---- MODULE Spec2Model ----
(***************************************************************************)
(* State-machine model of app.py: the HyperliquidRealBot object, its three *)
(* Flask routes (/webhook, /, /emergency-stop) served by concurrent        *)
(* handlers, and the venue's two endpoints ("info" and "exchange") as      *)
(* nondeterministic responders.                                            *)
(*                                                                         *)
(* Units: balances and prices are whole dollars; order and position sizes  *)
(* are integers counting 0.0001 ETH (the 4 decimals of round(x, 4)).       *)
(* A Python value that may be None or absent is a set: {} or {v}.          *)
(***************************************************************************)
EXTENDS Integers, Sequences, FiniteSets, TLC

(***************************************************************************)
(* Bounds of the model.                                                    *)
(***************************************************************************)
\* wall-clock milliseconds run from 0 to MaxClock
MaxClock == 1

\* the server's concurrently running request handlers
Handlers == {"h1", "h2"}

(***************************************************************************)
(* Program constants.                                                      *)
(***************************************************************************)
\* round(position_size, 4): sizes count units of 10^-4
SizeScale == 10000
\* balance * 0.8, as the fraction UtilNum / UtilDen
UtilNum == 8
UtilDen == 10
\* MAX_POSITION_USD defaults to '50'
DefaultMaxPositionUsd == 50
\* if balance < 5
MinBalance == 5
\* abs(size) > 0.0001, in units of 10^-4
DustThreshold == 1

(***************************************************************************)
(* Strings that the code transforms are sequences of characters.           *)
(***************************************************************************)
LowerChar(c) ==
    CASE c = "B" -> "b" [] c = "U" -> "u" [] c = "Y" -> "y"
      [] c = "S" -> "s" [] c = "E" -> "e" [] c = "L" -> "l"
      [] c = "C" -> "c" [] c = "O" -> "o" [] c = "H" -> "h"
      [] c = "D" -> "d"
      [] OTHER -> c

LowerIdentity(s) == s
\* str.lower()
Lower(s) == [k \in 1..Len(s) |-> LowerChar(s[k])]

BUY == <<"b", "u", "y">>
SELL == <<"s", "e", "l", "l">>
CLOSE == <<"c", "l", "o", "s", "e">>

\* the list ['buy', 'sell', 'close'] of process_webhook
ValidActions == {BUY, SELL, CLOSE}

(***************************************************************************)
(* Inputs: environment, webhook payloads, venue responses.                 *)
(***************************************************************************)
\* os.getenv('HYPERLIQUID_PRIVATE_KEY'): unset or a key
PrivateKeys == {{}, {"0xkey"}}

Secret == "s3cret"

ActionTokens ==
    { BUY, <<"B", "U", "Y">>, SELL, CLOSE, <<"h", "o", "l", "d">> }

Passphrases == {Secret, "S3CRET", "wrong"}

\* request.get_json(): None (null = TRUE) or a dict with or without the keys
\* 'action' and 'passphrase'; other = TRUE when the dict holds some other key
NoData == [null |-> TRUE, action |-> {}, passphrase |-> {}, other |-> FALSE]

Payloads ==
    {NoData}
    \cup { [null |-> FALSE, action |-> a, passphrase |-> p, other |-> FALSE] :
             a \in {{}} \cup {{t} : t \in ActionTokens},
             p \in {{}} \cup {{s} : s \in Passphrases} }
    \cup { [null |-> FALSE, action |-> {}, passphrase |-> {}, other |-> TRUE] }

\* {"type": "meta"} responses: a transport failure, a non-200, or a universe
MetaResponses ==
    { [kind |-> "exception", code |-> 0, universe |-> <<>>],
      [kind |-> "http", code |-> 500, universe |-> <<>>] }
    \cup { [kind |-> "http", code |-> 200, universe |-> u] :
             u \in { <<>>, <<"BTC">>, <<"ETH">>, <<"BTC", "ETH">> } }

Prices == {0, 2000, 100000}

\* {"type": "allMids"} responses; eth = {} when the map lacks 'ETH'
PriceResponses ==
    { [kind |-> "exception", code |-> 0, eth |-> {}],
      [kind |-> "http", code |-> 500, eth |-> {}],
      [kind |-> "http", code |-> 200, eth |-> {}] }
    \cup { [kind |-> "http", code |-> 200, eth |-> {p}] : p \in Prices }

Balances == {0, 4, 5, 100}

\* entries of assetPositions: szi in units of 10^-4
LongPos == [coin |-> "ETH", szi |-> 2]
ShortPos == [coin |-> "ETH", szi |-> 0 - 20000]
\* 0.0001 ETH: not above the threshold of get_account_info
DustPos == [coin |-> "ETH", szi |-> 1]
OtherCoinPos == [coin |-> "BTC", szi |-> 10000]

PositionLists ==
    { <<>>, <<LongPos>>, <<ShortPos>>, <<DustPos>>, <<OtherCoinPos>>,
      <<LongPos, ShortPos>>, <<OtherCoinPos, ShortPos>>, <<LongPos, DustPos>> }

\* {"type": "clearinghouseState"} responses; accountValue = {} when the body
\* has no marginSummary.  Balances vary on accounts without positions,
\* positions on accounts of one (small) balance: process_signal reads only
\* the balance, close_all_positions only the positions.
AccountResponses ==
    { [kind |-> "exception", code |-> 0, accountValue |-> {}, assetPositions |-> <<>>],
      [kind |-> "http", code |-> 500, accountValue |-> {}, assetPositions |-> <<>>],
      [kind |-> "http", code |-> 200, accountValue |-> {}, assetPositions |-> <<>>] }
    \cup { [kind |-> "http", code |-> 200, accountValue |-> {b}, assetPositions |-> <<>>] :
             b \in Balances }
    \cup { [kind |-> "http", code |-> 200, accountValue |-> {3}, assetPositions |-> ps] :
             ps \in PositionLists }

\* responses of the exchange endpoint to an order
SubmitResponses ==
    { [kind |-> "exception", code |-> 0, text |-> "timed out"],
      [kind |-> "http", code |-> 200, text |-> "ack"],
      [kind |-> "http", code |-> 400, text |-> "rejected"] }

(***************************************************************************)
(* State.                                                                  *)
(***************************************************************************)
VARIABLES
    bot,        \* the module-level bot: {} (None) or {the HyperliquidRealBot}
    clock,      \* time.time() in milliseconds
    exchange,   \* the requests sent to the exchange endpoint, in order
    req,        \* per handler: its position and the locals of its request
    calc        \* a direct call of calculate_position_size and its result

vars == <<bot, clock, exchange, req, calc>>

Min2(a, b) == IF a <= b THEN a ELSE b

Abs(x) == IF x < 0 THEN 0 - x ELSE x

SetMin(S) == CHOOSE x \in S : \A y \in S : x <= y

(***************************************************************************)
(* HyperliquidRealBot: construction.                                       *)
(***************************************************************************)
\* get_asset_info: the index of the first universe entry named ETH
get_asset_info(resp) ==
    IF resp.kind = "exception" THEN {}
    ELSE IF resp.code # 200 THEN {}
    ELSE LET hits == { k \in 1..Len(resp.universe) : resp.universe[k] = "ETH" }
         IN  IF hits = {} THEN {} ELSE { SetMin(hits) - 1 }

\* __init__, then the module-level try/except that leaves bot = None
NewBot(key, meta) ==
    IF key = {} THEN {}
    ELSE { [ private_key      |-> key,
             webhook_secret   |-> Secret,
             use_testnet      |-> FALSE,
             max_position_usd |-> DefaultMaxPositionUsd,
             wallet_address   |-> "0xwallet",
             info_url         |-> "https://api.hyperliquid.xyz/info",
             exchange_url     |-> "https://api.hyperliquid.xyz/exchange",
             chain_name       |-> "Mainnet",
             eth_asset_id     |-> get_asset_info(meta) ] }

TheBot == CHOOSE b \in bot : TRUE

(***************************************************************************)
(* HyperliquidRealBot: the venue reads.                                    *)
(***************************************************************************)
\* a get_eth_price that answers a hardcoded price when it could not get one
get_eth_price_fallback(resp) ==
    IF resp.kind = "exception" THEN 2000
    ELSE IF resp.code = 200 /\ resp.eth # {} THEN CHOOSE p \in resp.eth : TRUE
    ELSE 2000
\* get_eth_price
get_eth_price(resp) ==
    IF resp.kind = "exception" THEN 0
    ELSE IF resp.code = 200 /\ resp.eth # {} THEN CHOOSE p \in resp.eth : TRUE
    ELSE 0

\* abs(size) > 0.0001
IsOpenSize(szi) == Abs(szi) > DustThreshold

\* the "Get positions" loop of get_account_info
ParsePositions(assetPositions) ==
    LET kept == SelectSeq(assetPositions,
                          LAMBDA pos : pos.coin = "ETH" /\ IsOpenSize(pos.szi))
    IN  [ k \in 1..Len(kept) |->
            [ symbol |-> "ETH",
              size   |-> kept[k].szi,
              side   |-> IF kept[k].szi > 0 THEN "long" ELSE "short" ] ]

\* get_account_info
get_account_info(resp) ==
    IF resp.kind = "exception" \/ resp.code # 200
    THEN [ balance |-> 0, positions |-> <<>>, account_connected |-> FALSE ]
    ELSE [ balance   |-> IF resp.accountValue = {} THEN 0
                         ELSE CHOOSE b \in resp.accountValue : TRUE,
           positions |-> ParsePositions(resp.assetPositions),
           account_connected |-> TRUE ]

(***************************************************************************)
(* HyperliquidRealBot: sizing.                                             *)
(***************************************************************************)
\* round(n / d, 4 decimals) of a quotient already scaled by SizeScale: to
\* the nearest integer.  Python rounds the double it computed: a tie that is
\* a double itself (50 / 1600 = 0.03125) goes to the even neighbour; the
\* input sets hold no tie whose double is inexact.
RoundHalfEven(n, d) ==
    LET q == n \div d
        r == n % d
    IN  IF 2 * r < d THEN q
        ELSE IF 2 * r > d THEN q + 1
        ELSE IF q % 2 = 0 THEN q ELSE q + 1

UncappedValue(balance, max_position_usd) == UtilNum * balance
\* min(balance * 0.8, self.max_position_usd), times UtilDen
MaxPositionValue(balance, max_position_usd) ==
    Min2(UtilNum * balance, UtilDen * max_position_usd)

\* calculate_position_size, in units of 10^-4
calculate_position_size(balance, eth_price, max_position_usd) ==
    IF balance <= 0 \/ eth_price <= 0 THEN 0
    ELSE RoundHalfEven(MaxPositionValue(balance, max_position_usd) * SizeScale,
                       UtilDen * eth_price)

(***************************************************************************)
(* Results and the locals of a request.                                    *)
(***************************************************************************)
\* a result dict; a key the dict lacks is {} (or "" for text and side)
Result(status, message) ==
    [ status |-> status, message |-> message, text |-> "",
      size |-> {}, side |-> "", closed_positions |-> {} ]

Err(message) == Result("error", message)

IdleReq ==
    [ pc |-> "idle", route |-> "none", data |-> NoData, action |-> <<>>,
      eth_price |-> {}, account_info |-> {}, position_size |-> {},
      i |-> 0, closed_results |-> <<>>, payload |-> {},
      calls |-> <<>>, result |-> {}, http |-> 0 ]

\* the request runs close_all_positions
InClose(r) == r.route = "emergency" \/ (r.route = "webhook" /\ r.action = CLOSE)

(***************************************************************************)
(* The routes' return paths.                                               *)
(***************************************************************************)
StatusCodeAlwaysOk(result) == 200
\* webhook: status_code = 200 if result.get('status') == 'success' else 400
StatusCode(result) == IF result.status = "success" THEN 200 ELSE 400

Respond(r, result, code) ==
    [r EXCEPT !.pc = "done", !.result = {result}, !.http = code]

\* the return of process_webhook to webhook, of close_all_positions to
\* emergency_stop: jsonify(result) with the route's status code
Return(r, result) ==
    IF r.route = "webhook" THEN Respond(r, result, StatusCode(result))
    ELSE Respond(r, result, 200)

(***************************************************************************)
(* process_webhook: validation.                                            *)
(***************************************************************************)
PassphraseMatchesInverted(passphrase, secret) == passphrase # secret
\* not (data['passphrase'] != self.webhook_secret)
PassphraseMatches(passphrase, secret) == passphrase = secret

\* the checks of process_webhook before it delegates: {} or {the error}
Validate(data, secret) ==
    IF data.action = {} THEN { Err("Missing action field") }
    ELSE IF data.passphrase = {} THEN { Err("Missing passphrase field") }
    ELSE IF ~PassphraseMatches(CHOOSE x \in data.passphrase : TRUE, secret)
         THEN { Err("Invalid passphrase") }
    ELSE IF Lower(CHOOSE a \in data.action : TRUE) \notin ValidActions
         THEN { Err("Invalid action") }
    ELSE {}

\* if not data: None and the empty dict are both falsy
DataFalsy(data) ==
    data.null \/ (data.action = {} /\ data.passphrase = {} /\ ~data.other)

\* process_signal up to its first venue call
process_signal_entry(r) ==
    IF r.action = CLOSE THEN [r EXCEPT !.pc = "close_account"]
    ELSE [r EXCEPT !.pc = "price"]

\* webhook() and process_webhook up to the first venue call
webhook_entry(r) ==
    IF bot = {} THEN Respond(r, Err("Bot not initialized"), 500)
    ELSE IF DataFalsy(r.data) THEN Respond(r, Err("No JSON data"), 400)
    ELSE LET v == Validate(r.data, TheBot.webhook_secret)
         IN  IF v # {} THEN Return(r, CHOOSE e \in v : TRUE)
             ELSE process_signal_entry(
                      [r EXCEPT !.action = Lower(CHOOSE a \in r.data.action : TRUE)])

(***************************************************************************)
(* place_market_order and close_all_positions.                             *)
(***************************************************************************)
Acct(r) == CHOOSE a \in r.account_info : TRUE

\* not self.eth_asset_id: None and 0 are both falsy
AssetIdFalsy(eth_asset_id) == eth_asset_id = {} \/ eth_asset_id = {0}

\* is_buy = (position['side'] == 'short')
CloseIsBuy(position) == position.side = "short"

\* the arguments of the place_market_order call the request is at
OrderArgs(r) ==
    IF InClose(r)
    THEN LET position == Acct(r).positions[r.i]
         IN  [ is_buy |-> CloseIsBuy(position), size |-> Abs(position.size) ]
    ELSE [ is_buy |-> (r.action = BUY),
           size   |-> CHOOSE z \in r.position_size : TRUE ]

\* the order action dict; "s" is str(size), kept in units of 10^-4
OrderAction(eth_asset_id, is_buy, size) ==
    [ type |-> "order", a |-> eth_asset_id, b |-> is_buy, p |-> "0",
      s |-> size, r |-> FALSE, tif |-> "Ioc", grouping |-> "na" ]

\* int(time.time() * 1000)
Nonce(now) == now

\* a signer that does not use the key
sign_action_mock(b, action, nonce) ==
    [ key |-> {}, chain |-> b.chain_name, action |-> action, nonce |-> nonce ]
\* sign_action: the signature of the bot's key over the action and the nonce
sign_action(b, action, nonce) ==
    [ key |-> b.private_key, chain |-> b.chain_name,
      action |-> action, nonce |-> nonce ]

\* place_market_order: the result for the exchange's response
OrderResult(resp, is_buy, size) ==
    IF resp.kind = "exception"
    THEN [ Err("Order error") EXCEPT !.text = resp.text ]
    ELSE IF resp.code = 200
    THEN [ Result("success", "REAL order placed") EXCEPT
             !.text = resp.text, !.size = {size},
             !.side = IF is_buy THEN "buy" ELSE "sell" ]
    ELSE [ Err("Order failed") EXCEPT !.text = resp.text, !.size = {size} ]

NoPositionsIsError == Err("No positions to close")
\* close_all_positions: if not positions
NoPositionsResult ==
    [ Result("success", "No positions to close") EXCEPT !.closed_positions = {<<>>} ]

ClosedResult(closed_results) ==
    [ Result("success", "Closed positions") EXCEPT
        !.closed_positions = {closed_results} ]

\* a process_signal that places the order again when it failed
OrderReturnRetrying(r, res) ==
    IF InClose(r)
    THEN LET cr == Append(r.closed_results,
                          [ position |-> Acct(r).positions[r.i],
                            close_result |-> res ])
         IN  IF r.i < Len(Acct(r).positions)
             THEN [r EXCEPT !.closed_results = cr, !.i = r.i + 1,
                            !.payload = {}, !.pc = "order"]
             ELSE Return([r EXCEPT !.closed_results = cr, !.payload = {}],
                         ClosedResult(cr))
    ELSE IF res.status = "error" /\ Len(r.calls) < 4
         THEN [r EXCEPT !.payload = {}, !.pc = "order"]
         ELSE Return([r EXCEPT !.payload = {}], res)

\* place_market_order returns res to its caller: process_signal returns it,
\* close_all_positions appends it and goes on with the next position
OrderReturn(r, res) ==
    IF InClose(r)
    THEN LET cr == Append(r.closed_results,
                          [ position |-> Acct(r).positions[r.i],
                            close_result |-> res ])
         IN  IF r.i < Len(Acct(r).positions)
             THEN [r EXCEPT !.closed_results = cr, !.i = r.i + 1,
                            !.payload = {}, !.pc = "order"]
             ELSE Return([r EXCEPT !.closed_results = cr, !.payload = {}],
                         ClosedResult(cr))
    ELSE Return([r EXCEPT !.payload = {}], res)

\* close_all_positions after its get_account_info
close_after_account(r, info) ==
    LET r1 == [r EXCEPT !.account_info = {info}]
    IN  IF info.positions = <<>> THEN Return(r1, NoPositionsResult)
        ELSE [r1 EXCEPT !.i = 1, !.pc = "order"]

(***************************************************************************)
(* process_signal.                                                         *)
(***************************************************************************)
InvalidPriceStrict(eth_price) == eth_price < 0
\* if eth_price <= 0
InvalidPrice(eth_price) == eth_price <= 0

BelowMinimumOnlyEmpty(balance) == balance <= 0
\* if balance < 5
BelowMinimum(balance) == balance < MinBalance

InvalidSizeStrict(position_size) == position_size < 0
\* if position_size <= 0
InvalidSize(position_size) == position_size <= 0

\* process_signal after get_eth_price
signal_after_price(r, eth_price) ==
    LET r1 == [r EXCEPT !.eth_price = {eth_price}]
    IN  IF InvalidPrice(eth_price) THEN Return(r1, Err("Invalid ETH price"))
        ELSE [r1 EXCEPT !.pc = "account"]

\* process_signal after get_account_info
signal_after_account(r, info) ==
    LET r1 == [r EXCEPT !.account_info = {info}]
    IN  IF ~info.account_connected THEN Return(r1, Err("Account not connected"))
        ELSE IF BelowMinimum(info.balance)
        THEN Return(r1, Err("Insufficient balance"))
        ELSE LET size == calculate_position_size(
                             info.balance, CHOOSE p \in r.eth_price : TRUE,
                             TheBot.max_position_usd)
                 r2 == [r1 EXCEPT !.position_size = {size}]
             IN  IF InvalidSize(size)
                 THEN Return(r2, Err("Invalid position size"))
                 ELSE [r2 EXCEPT !.pc = "order"]

(***************************************************************************)
(* Direct calls of calculate_position_size (specification SizeSpec).       *)
(***************************************************************************)
SizeBalances == {0 - 5, 0, 1, 3, 5, 7, 20, 62, 63, 100, 1000}
SizePrices == {0 - 1, 0, 1, 3, 7, 1600, 2000, 3000, 100000}
SizeMaxima == {DefaultMaxPositionUsd, 200}

CalcIdle == [pc |-> "idle", balance |-> 0, eth_price |-> 0,
             max_position_usd |-> DefaultMaxPositionUsd, size |-> {}]

(***************************************************************************)
(* Init: the state once the module has been imported.                      *)
(***************************************************************************)
Init ==
    /\ bot \in { NewBot(key, meta) : key \in PrivateKeys, meta \in MetaResponses }
    /\ clock = 0
    /\ exchange = <<>>
    /\ req = [h \in Handlers |-> IdleReq]
    /\ calc = CalcIdle

(***************************************************************************)
(* The routes take a request.                                              *)
(***************************************************************************)
\* POST /webhook: webhook() and process_webhook up to the first venue call
Webhook(h) ==
    /\ req[h].pc = "idle"
    /\ \E data \in Payloads :
         req' = [req EXCEPT ![h] =
                   webhook_entry([req[h] EXCEPT !.route = "webhook", !.data = data])]
    /\ UNCHANGED <<bot, clock, exchange, calc>>

\* a status() that looks the asset id up again and stores it in the bot
StatusRefreshingAsset(h) ==
    /\ req[h].pc = "idle"
    /\ LET r == [req[h] EXCEPT !.route = "status"]
       IN  req' = [req EXCEPT ![h] =
                     IF bot = {} THEN Respond(r, Err("Bot not initialized"), 500)
                     ELSE [r EXCEPT !.pc = "status_account"]]
    /\ \E meta \in MetaResponses :
         bot' = IF bot = {} THEN bot
                ELSE { [TheBot EXCEPT !.eth_asset_id = get_asset_info(meta)] }
    /\ UNCHANGED <<clock, exchange, calc>>

\* GET /: status() up to its first venue call
Status(h) ==
    /\ req[h].pc = "idle"
    /\ LET r == [req[h] EXCEPT !.route = "status"]
       IN  req' = [req EXCEPT ![h] =
                     IF bot = {} THEN Respond(r, Err("Bot not initialized"), 500)
                     ELSE [r EXCEPT !.pc = "status_account"]]
    /\ UNCHANGED <<bot, clock, exchange, calc>>

\* POST /emergency-stop: emergency_stop() up to its first venue call
EmergencyStop(h) ==
    /\ req[h].pc = "idle"
    /\ LET r == [req[h] EXCEPT !.route = "emergency"]
       IN  req' = [req EXCEPT ![h] =
                     IF bot = {} THEN Respond(r, Err("Bot not initialized"), 500)
                     ELSE [r EXCEPT !.pc = "close_account"]]
    /\ UNCHANGED <<bot, clock, exchange, calc>>

(***************************************************************************)
(* The steps of a request: each is one venue call and the code after it.   *)
(***************************************************************************)
Called(r, kind, resp) ==
    [r EXCEPT !.calls = Append(@, [kind |-> kind, resp |-> resp])]

\* process_signal: eth_price = self.get_eth_price() and the check after it
FetchPrice(h) ==
    /\ req[h].pc = "price"
    /\ \E resp \in PriceResponses :
         req' = [req EXCEPT ![h] =
                   signal_after_price(Called(req[h], "price", resp),
                                      get_eth_price(resp))]
    /\ UNCHANGED <<bot, clock, exchange, calc>>

\* process_signal: account_info = self.get_account_info(), the checks and
\* the sizing after it
FetchAccount(h) ==
    /\ req[h].pc = "account"
    /\ \E resp \in AccountResponses :
         req' = [req EXCEPT ![h] =
                   signal_after_account(Called(req[h], "account", resp),
                                        get_account_info(resp))]
    /\ UNCHANGED <<bot, clock, exchange, calc>>

\* close_all_positions: account_info = self.get_account_info()
CloseFetchAccount(h) ==
    /\ req[h].pc = "close_account"
    /\ \E resp \in AccountResponses :
         req' = [req EXCEPT ![h] =
                   close_after_account(Called(req[h], "account", resp),
                                       get_account_info(resp))]
    /\ UNCHANGED <<bot, clock, exchange, calc>>

\* status: account_info = bot.get_account_info()
StatusFetchAccount(h) ==
    /\ req[h].pc = "status_account"
    /\ \E resp \in AccountResponses :
         req' = [req EXCEPT ![h] =
                   [Called(req[h], "account", resp) EXCEPT
                      !.account_info = {get_account_info(resp)},
                      !.pc = "status_price"]]
    /\ UNCHANGED <<bot, clock, exchange, calc>>

\* status: eth_price = bot.get_eth_price() and the JSON snapshot
StatusFetchPrice(h) ==
    /\ req[h].pc = "status_price"
    /\ \E resp \in PriceResponses :
         req' = [req EXCEPT ![h] =
                   Respond([Called(req[h], "price", resp) EXCEPT
                              !.eth_price = {get_eth_price(resp)}],
                           Result("operational", "REAL TRADING BOT ACTIVE"), 200)]
    /\ UNCHANGED <<bot, clock, exchange, calc>>

\* place_market_order up to requests.post: the asset id check, the nonce,
\* the action and its signature (sign_action may raise)
PlaceOrder(h) ==
    /\ req[h].pc = "order"
    /\ LET r == req[h]
           args == OrderArgs(r)
       IN  IF AssetIdFalsy(TheBot.eth_asset_id)
           THEN req' = [req EXCEPT ![h] =
                          OrderReturn(r, Err("ETH asset ID not found"))]
           ELSE \E signed \in BOOLEAN :
                  LET nonce == Nonce(clock)
                      action == OrderAction(CHOOSE a \in TheBot.eth_asset_id : TRUE,
                                            args.is_buy, args.size)
                  IN  req' = [req EXCEPT ![h] =
                                IF signed
                                THEN [r EXCEPT
                                        !.payload = {[ action |-> action,
                                                       nonce |-> nonce,
                                                       signature |->
                                                         sign_action(TheBot, action, nonce) ]},
                                        !.pc = "post"]
                                ELSE OrderReturn(r, [Err("Order error") EXCEPT
                                                       !.text = "signing failed"])]
    /\ UNCHANGED <<bot, clock, exchange, calc>>

\* place_market_order: requests.post to the exchange endpoint and the
\* mapping of its response
PostOrder(h) ==
    /\ req[h].pc = "post"
    /\ \E resp \in SubmitResponses :
         LET r == req[h]
             payload == CHOOSE x \in r.payload : TRUE
             args == OrderArgs(r)
             r1 == [r EXCEPT !.calls =
                      Append(@, [kind |-> "submit", payload |-> payload, resp |-> resp])]
         IN  /\ exchange' = Append(exchange, payload)
             /\ req' = [req EXCEPT ![h] =
                          OrderReturn(r1, OrderResult(resp, args.is_buy, args.size))]
    /\ UNCHANGED <<bot, clock, calc>>

\* a millisecond passes
Tick ==
    /\ clock < MaxClock
    /\ clock' = clock + 1
    /\ UNCHANGED <<bot, exchange, req, calc>>

Next ==
    \/ Tick
    \/ \E h \in Handlers :
         \/ Webhook(h)
         \/ Status(h)
         \/ EmergencyStop(h)
         \/ FetchPrice(h)
         \/ FetchAccount(h)
         \/ CloseFetchAccount(h)
         \/ StatusFetchAccount(h)
         \/ StatusFetchPrice(h)
         \/ PlaceOrder(h)
         \/ PostOrder(h)

Spec == Init /\ [][Next]_vars

(***************************************************************************)
(* SizeSpec: calculate_position_size called on each input of the bounded   *)
(* sets.                                                                   *)
(***************************************************************************)
SizeInit ==
    /\ bot = {}
    /\ clock = 0
    /\ exchange = <<>>
    /\ req = [h \in Handlers |-> IdleReq]
    /\ calc \in { [CalcIdle EXCEPT !.pc = "call", !.balance = b, !.eth_price = p,
                                   !.max_position_usd = m] :
                    b \in SizeBalances, p \in SizePrices, m \in SizeMaxima }

Calculate ==
    /\ calc.pc = "call"
    /\ calc' = [calc EXCEPT
                  !.pc = "done",
                  !.size = {calculate_position_size(calc.balance, calc.eth_price,
                                                    calc.max_position_usd)}]
    /\ UNCHANGED <<bot, clock, exchange, req>>

SizeNext == Calculate

SizeSpec == SizeInit /\ [][SizeNext]_vars

(***************************************************************************)
(* What the claims speak of.                                               *)
(***************************************************************************)
Res(r) == CHOOSE x \in r.result : TRUE

SubmitCalls(r) == SelectSeq(r.calls, LAMBDA c : c.kind = "submit")

\* the venue answered the allMids query with a price for ETH
PriceDelivered(resp) == resp.kind = "http" /\ resp.code = 200 /\ resp.eth # {}

\* the venue answered the clearinghouseState query
AccountDelivered(resp) == resp.kind = "http" /\ resp.code = 200

HasBothFields(data) == ~data.null /\ data.action # {} /\ data.passphrase # {}

\* an authenticated webhook request for one of the three actions
IsSignal(r, actions) == r.route = "webhook" /\ r.action \in actions

\* a webhook request of an initialized bot whose payload has both fields
\* and a passphrase other than the configured secret
WrongPassphrase(r) ==
    /\ r.route = "webhook"
    /\ bot # {}
    /\ HasBothFields(r.data)
    /\ \E x \in r.data.passphrase : x # TheBot.webhook_secret

\* C1: a webhook payload with both fields and a passphrase that differs from
\* the configured secret (exactly, case-sensitively) gets an error result,
\* and its request makes no venue call at all.
C1_WrongPassphraseRejected ==
    \A h \in Handlers :
        WrongPassphrase(req[h]) =>
            /\ req[h].pc = "done"
            /\ Res(req[h]).status = "error"
            /\ req[h].calls = <<>>

C1_Witness ==
    \E h \in Handlers :
        /\ WrongPassphrase(req[h])
        /\ req[h].data.passphrase = {"S3CRET"}
        /\ req[h].data.action = {BUY}
        /\ req[h].pc = "done"
        /\ Res(req[h]).message = "Invalid passphrase"

\* the submit call at index i of a buy/sell request comes after a price
\* fetch that delivered a price > 0 and, after that, a delivered account fetch
SubmitAfterPriceAndAccount(r, i) ==
    \E j \in 1..(i - 1) : \E k \in (j + 1)..(i - 1) :
        /\ r.calls[j].kind = "price"
        /\ PriceDelivered(r.calls[j].resp)
        /\ \A p \in r.calls[j].resp.eth : p > 0
        /\ r.calls[k].kind = "account"
        /\ AccountDelivered(r.calls[k].resp)

\* the submit call at index i of a close comes after a delivered account
\* fetch that listed the ETH position the order offsets
SubmitAfterPositionListing(r, i) ==
    \E k \in 1..(i - 1) :
        /\ r.calls[k].kind = "account"
        /\ AccountDelivered(r.calls[k].resp)
        /\ \E n \in 1..Len(r.calls[k].resp.assetPositions) :
             LET pos == r.calls[k].resp.assetPositions[n]
             IN  /\ pos.coin = "ETH"
                 /\ Abs(pos.szi) = r.calls[i].payload.action.s
                 /\ r.calls[i].payload.action.b = (pos.szi < 0)

\* C2: an order of a buy or sell signal is submitted only after a successful
\* price fetch (price > 0) followed by a successful account fetch in the same
\* request; an order of a close only after an account fetch of the same
\* request returned the position it closes.
C2_SubmitOnlyAfterFetches ==
    \A h \in Handlers : \A i \in 1..Len(req[h].calls) :
        req[h].calls[i].kind = "submit" =>
            IF InClose(req[h]) THEN SubmitAfterPositionListing(req[h], i)
            ELSE /\ IsSignal(req[h], {BUY, SELL})
                 /\ SubmitAfterPriceAndAccount(req[h], i)

C2_Witness ==
    \E h \in Handlers : \E g \in Handlers :
        /\ IsSignal(req[h], {BUY, SELL})
        /\ Len(SubmitCalls(req[h])) = 1
        /\ IsSignal(req[g], {CLOSE})
        /\ Len(SubmitCalls(req[g])) = 2

\* C3: the nonces of the requests sent to the exchange endpoint are strictly
\* increasing in the order of sending; no two requests carry the same nonce.
C3_NoncesStrictlyIncreasing ==
    \A i \in 1..Len(exchange) : \A j \in (i + 1)..Len(exchange) :
        exchange[i].nonce < exchange[j].nonce

\* C4: when the account fetch of a buy, sell or close signal failed (timeout,
\* transport error, non-200), the signal's result has status error.
C4_AccountFailureIsError ==
    \A h \in Handlers :
        ( /\ req[h].pc = "done"
          /\ IsSignal(req[h], ValidActions)
          /\ \E k \in 1..Len(req[h].calls) :
               /\ req[h].calls[k].kind = "account"
               /\ ~AccountDelivered(req[h].calls[k].resp) )
        => Res(req[h]).status = "error"

\* C5: when an order submission of a buy, sell or close signal got a non-2xx
\* response, the webhook answers with a result of status error carrying the
\* venue's response text, and with an HTTP status other than 200.
C5_RejectionIsError ==
    \A h \in Handlers : \A k \in 1..Len(req[h].calls) :
        ( /\ req[h].pc = "done"
          /\ IsSignal(req[h], ValidActions)
          /\ req[h].calls[k].kind = "submit"
          /\ req[h].calls[k].resp.kind = "http"
          /\ req[h].calls[k].resp.code \notin 200..299 )
        => /\ Res(req[h]).status = "error"
           /\ Res(req[h]).text = req[h].calls[k].resp.text
           /\ req[h].http # 200

\* the account fetch of the request was delivered and listed exactly pos
ListedExactly(r, pos) ==
    \E k \in 1..Len(r.calls) :
        /\ r.calls[k].kind = "account"
        /\ AccountDelivered(r.calls[k].resp)
        /\ r.calls[k].resp.assetPositions = <<pos>>

SigningFailed(r) ==
    \E k \in 1..Len(r.closed_results) :
        r.closed_results[k].close_result.text = "signing failed"

\* C6: a close signal on an account holding one ETH position of signed size
\* szi # 0 submits exactly one order, of size |szi|: a sell when the position
\* is long, a buy when it is short (a failure of the signer set aside).
C6_CloseSubmitsOffsettingOrder ==
    \A h \in Handlers : \A pos \in {LongPos, ShortPos, DustPos} :
        ( /\ req[h].pc = "done"
          /\ IsSignal(req[h], {CLOSE})
          /\ ListedExactly(req[h], pos)
          /\ ~SigningFailed(req[h]) )
        => /\ Len(SubmitCalls(req[h])) = 1
           /\ SubmitCalls(req[h])[1].payload.action.s = Abs(pos.szi)
           /\ SubmitCalls(req[h])[1].payload.action.b = (pos.szi < 0)

\* C7: a close on an account with no open position returns status success
\* with an empty closed_positions list and submits no order.
C7_CloseWithoutPositions ==
    \A h \in Handlers :
        ( /\ req[h].pc = "done"
          /\ InClose(req[h])
          /\ \E k \in 1..Len(req[h].calls) :
               /\ req[h].calls[k].kind = "account"
               /\ AccountDelivered(req[h].calls[k].resp)
               /\ req[h].calls[k].resp.assetPositions = <<>> )
        => /\ Res(req[h]).status = "success"
           /\ Res(req[h]).closed_positions = {<<>>}
           /\ SubmitCalls(req[h]) = <<>>

C7_Witness ==
    \E h \in Handlers :
        /\ req[h].pc = "done"
        /\ IsSignal(req[h], {CLOSE})
        /\ Len(req[h].calls) = 1
        /\ AccountDelivered(req[h].calls[1].resp)
        /\ req[h].calls[1].resp.assetPositions = <<>>
        /\ Res(req[h]).message = "No positions to close"
        /\ req[h].http = 200

\* the price fetch of a buy/sell request came back without a price
PriceFetchFailed(r) ==
    /\ IsSignal(r, {BUY, SELL})
    /\ r.calls # <<>>
    /\ r.calls[1].kind = "price"
    /\ ~PriceDelivered(r.calls[1].resp)

\* C8: when the price fetch of a buy or sell signal times out, fails, returns
\* non-200 or lacks ETH, the signal ends with an error result; the request
\* makes no further venue call (no account fetch, no submission) and no size
\* is computed.
C8_PriceFailureAborts ==
    \A h \in Handlers :
        PriceFetchFailed(req[h]) =>
            /\ req[h].pc = "done"
            /\ Res(req[h]).status = "error"
            /\ Len(req[h].calls) = 1
            /\ req[h].position_size = {}

C8_Witness ==
    \E h \in Handlers :
        /\ PriceFetchFailed(req[h])
        /\ req[h].calls[1].resp.kind = "exception"
        /\ req[h].pc = "done"
        /\ Res(req[h]).message = "Invalid ETH price"
        /\ req[h].http = 400

\* the call of calculate_position_size has returned, balance and price > 0
SizedPositive == calc.pc = "done" /\ calc.balance > 0 /\ calc.eth_price > 0

CalcSize == CHOOSE z \in calc.size : TRUE

\* min(balance * 0.8, max_position_usd) * 10^4, times 10
CalcNumerator ==
    (IF 8 * calc.balance <= 10 * calc.max_position_usd
     THEN 8 * calc.balance ELSE 10 * calc.max_position_usd) * 10000

\* price, times 10
CalcDenominator == 10 * calc.eth_price

\* C9 as stated: for balance > 0 and price > 0 the size returned satisfies
\* 0 < size <= min(balance * 0.8, max_position_usd) / price.
C9_SizeWithinQuotient ==
    SizedPositive =>
        /\ 0 < CalcSize
        /\ CalcSize * CalcDenominator <= CalcNumerator

\* C9 amended: for balance > 0 and price > 0 the size returned is the
\* multiple of 0.0001 nearest to q = min(balance * 0.8, max_position_usd) /
\* price: size >= 0 and |size - q| <= 0.00005.
C9_SizeIsNearestToQuotient ==
    SizedPositive =>
        /\ 0 <= CalcSize
        /\ 2 * Abs(CalcSize * CalcDenominator - CalcNumerator) <= CalcDenominator

C9_Witness ==
    /\ SizedPositive
    /\ CalcSize > 0
    /\ CalcSize * CalcDenominator > CalcNumerator
    /\ 10 * calc.max_position_usd < 8 * calc.balance

\* C10: whenever the size computed for a buy or sell signal is <= 0,
\* process_signal returns an error result and the request submits no order.
C10_NonPositiveSizeRejected ==
    \A h \in Handlers :
        ( /\ req[h].position_size # {}
          /\ \A z \in req[h].position_size : z <= 0 )
        => /\ req[h].pc = "done"
           /\ Res(req[h]).status = "error"
           /\ SubmitCalls(req[h]) = <<>>
           /\ req[h].payload = {}

C10_Witness ==
    \E h \in Handlers :
        /\ IsSignal(req[h], {BUY, SELL})
        /\ req[h].position_size = {0}
        /\ req[h].pc = "done"
        /\ Res(req[h]).message = "Invalid position size"
        /\ Len(req[h].calls) = 2

\* the balance process_signal reads from a delivered account response
FetchedBalanceBelow(resp, minimum) ==
    resp.accountValue = {} \/ \E b \in resp.accountValue : b < minimum

\* the account fetch of a buy/sell request failed or showed less than $5
AccountUnusable(r) ==
    /\ IsSignal(r, {BUY, SELL})
    /\ \E k \in 1..Len(r.calls) :
         /\ r.calls[k].kind = "account"
         /\ \/ ~AccountDelivered(r.calls[k].resp)
            \/ FetchedBalanceBelow(r.calls[k].resp, 5)

\* C11: when the account of a buy or sell signal is unreachable or its
\* fetched balance is below 5, process_signal returns an error result and
\* the request prepares and submits no order.
C11_LowBalanceRejected ==
    \A h \in Handlers :
        AccountUnusable(req[h]) =>
            /\ req[h].pc = "done"
            /\ Res(req[h]).status = "error"
            /\ SubmitCalls(req[h]) = <<>>
            /\ req[h].payload = {}
            /\ req[h].position_size = {}

C11_Witness ==
    \E h \in Handlers :
        /\ AccountUnusable(req[h])
        /\ req[h].calls[2].resp.accountValue = {4}
        /\ req[h].pc = "done"
        /\ Res(req[h]).message = "Insufficient balance"
        /\ req[h].http = 400

\* the request payload carries the bot's signature over its own action and
\* its own nonce
SignedByBot(payload) ==
    /\ payload.signature.key = TheBot.private_key
    /\ payload.signature.key # {}
    /\ payload.signature.action = payload.action
    /\ payload.signature.nonce = payload.nonce

\* the place_market_order results of the request: the result of a buy/sell,
\* the close_result entries of a close
OrderResults(r) ==
    IF InClose(r)
    THEN { r.closed_results[k].close_result : k \in 1..Len(r.closed_results) }
    ELSE IF r.pc = "done" /\ r.position_size # {} /\ r.calls # <<>>
              /\ \A z \in r.position_size : z > 0
         THEN r.result
         ELSE {}

\* the number of place_market_order calls of the request that returned
\* after requests.post
OrdersPosted(r) ==
    IF InClose(r)
    THEN Cardinality({ k \in 1..Len(r.closed_results) :
                         r.closed_results[k].close_result.message
                             \in {"REAL order placed", "Order failed"}
                         \/ ( r.closed_results[k].close_result.message = "Order error"
                              /\ r.closed_results[k].close_result.text # "signing failed" ) })
    ELSE IF r.pc = "done" /\ r.result # {}
              /\ \E x \in r.result :
                    \/ x.message \in {"REAL order placed", "Order failed"}
                    \/ (x.message = "Order error" /\ x.text # "signing failed")
         THEN 1 ELSE 0

\* C12: when sign_action fails, place_market_order sends nothing for that
\* order and its result has status error: a request has sent exactly as many
\* orders as place_market_order calls got past the signer.  Every request
\* sent or about to be sent to the exchange endpoint carries the signature
\* of the bot's key over exactly its action and its nonce.
C12_SignedOrNotSent ==
    /\ \A k \in 1..Len(exchange) : SignedByBot(exchange[k])
    /\ \A h \in Handlers :
         /\ \A x \in req[h].payload : SignedByBot(x)
         /\ \A k \in 1..Len(req[h].calls) :
              req[h].calls[k].kind = "submit" => SignedByBot(req[h].calls[k].payload)
         /\ Len(SubmitCalls(req[h])) = OrdersPosted(req[h])
         /\ \A x \in OrderResults(req[h]) :
              x.text = "signing failed" => x.status = "error"

C12_Witness ==
    \E h \in Handlers : \E g \in Handlers :
        /\ IsSignal(req[h], {BUY, SELL})
        /\ req[h].pc = "done"
        /\ Res(req[h]).text = "signing failed"
        /\ SubmitCalls(req[h]) = <<>>
        /\ req[g].pc = "done"
        /\ Len(SubmitCalls(req[g])) = 1
        /\ exchange # <<>>

\* a webhook request of an initialized bot whose JSON object lacks the
\* action field or the passphrase field
MissingField(r) ==
    /\ r.route = "webhook"
    /\ bot # {}
    /\ ~r.data.null
    /\ (r.data.action = {} \/ r.data.passphrase = {})

\* C13: a payload missing the action field or the passphrase field is
\* rejected with a missing-field error result and no venue call; the
\* missing-field checks come before the passphrase comparison (a wrong
\* passphrase beside a missing action still reports the missing field).
C13_MissingFieldRejected ==
    \A h \in Handlers :
        MissingField(req[h]) =>
            /\ req[h].pc = "done"
            /\ Res(req[h]).status = "error"
            /\ Res(req[h]).message =
                   IF req[h].data.action = {} THEN "Missing action field"
                   ELSE "Missing passphrase field"
            /\ req[h].calls = <<>>

\* a webhook request of an initialized bot whose payload has both fields
\* and the configured secret as its passphrase
Authenticated(r) ==
    /\ r.route = "webhook"
    /\ bot # {}
    /\ HasBothFields(r.data)
    /\ r.data.passphrase = {TheBot.webhook_secret}

\* the lowercase form of an action token that is some casing of buy, sell
\* or close; {} for any other token
Folded(token) ==
    IF token \in {<<"b", "u", "y">>, <<"B", "U", "Y">>} THEN {<<"b", "u", "y">>}
    ELSE IF token = <<"s", "e", "l", "l">> THEN {<<"s", "e", "l", "l">>}
    ELSE IF token = <<"c", "l", "o", "s", "e">> THEN {<<"c", "l", "o", "s", "e">>}
    ELSE {}

\* C14: for an authenticated payload, any casing of buy, sell or close is
\* handed to process_signal in its lowercase form (the request goes on to
\* its first venue call); any other action is rejected with 'Invalid
\* action', an error other than the missing-field and passphrase errors,
\* with no venue call.
C14_ActionMatchedCaseInsensitively ==
    \A h \in Handlers :
        Authenticated(req[h]) =>
            \A token \in req[h].data.action :
                IF Folded(token) # {}
                THEN /\ {req[h].action} = Folded(token)
                     /\ req[h].pc # "done" \/ req[h].calls # <<>>
                ELSE /\ req[h].pc = "done"
                     /\ Res(req[h]).status = "error"
                     /\ Res(req[h]).message = "Invalid action"
                     /\ req[h].calls = <<>>

C14_Witness ==
    \E h \in Handlers : \E g \in Handlers :
        /\ Authenticated(req[h])
        /\ req[h].data.action = {<<"B", "U", "Y">>}
        /\ req[h].action = BUY
        /\ Len(req[h].calls) >= 1
        /\ req[h].calls[1].kind = "price"
        /\ Authenticated(req[g])
        /\ req[g].data.action = {<<"h", "o", "l", "d">>}
        /\ Res(req[g]).message = "Invalid action"

C15_WitnessUninitialized ==
    \E h \in Handlers : \E g \in Handlers :
        /\ bot = {}
        /\ req[h].route = "webhook" /\ req[h].http = 500
        /\ req[g].route = "emergency" /\ req[g].http = 500

\* what place_market_order makes of the exchange's response to an order of
\* the given side and size
MappedResponse(x, resp, action) ==
    /\ x.text = resp.text
    /\ IF resp.kind = "http" /\ resp.code = 200
       THEN /\ x.status = "success"
            /\ x.message = "REAL order placed"
            /\ x.size = {action.s}
            /\ x.side = IF action.b THEN "buy" ELSE "sell"
       ELSE /\ x.status = "error"
            /\ x.message = IF resp.kind = "http" THEN "Order failed" ELSE "Order error"

\* C16: a buy or sell signal sends at most one request to the exchange
\* endpoint, whatever the response (acknowledged, rejected, timed out), and
\* the result it returns is the mapping of that one response.
C16_OneSubmissionPerSignal ==
    \A h \in Handlers :
        IsSignal(req[h], {BUY, SELL}) =>
            /\ Len(SubmitCalls(req[h])) <= 1
            /\ Len(SubmitCalls(req[h])) = 1 =>
                 /\ req[h].pc = "done"
                 /\ MappedResponse(Res(req[h]), SubmitCalls(req[h])[1].resp,
                                   SubmitCalls(req[h])[1].payload.action)
                 /\ SubmitCalls(req[h])[1].payload.action.b = (req[h].action = BUY)
                 /\ {SubmitCalls(req[h])[1].payload.action.s} = req[h].position_size

C16_Witness ==
    \E h \in Handlers : \E g \in Handlers :
        /\ IsSignal(req[h], {BUY}) /\ req[h].pc = "done"
        /\ Len(SubmitCalls(req[h])) = 1
        /\ SubmitCalls(req[h])[1].resp.kind = "exception"
        /\ Res(req[h]).message = "Order error"
        /\ IsSignal(req[g], {SELL}) /\ req[g].pc = "done"
        /\ Len(SubmitCalls(req[g])) = 1
        /\ SubmitCalls(req[g])[1].resp.code = 400
        /\ Res(req[g]).message = "Order failed"
        /\ Len(exchange) = 2

\* C17: on every route, a request that submits an order has before that
\* compared the caller's passphrase with the configured secret and found
\* them equal.
C17_SubmissionsAuthenticated ==
    \A h \in Handlers :
        SubmitCalls(req[h]) # <<>> =>
            /\ req[h].route = "webhook"
            /\ req[h].data.passphrase = {TheBot.webhook_secret}

\* the 'ETH asset ID not found' refusals among the request's order results
Refusals(r) ==
    { x \in OrderResults(r) \cup r.result : x.message = "ETH asset ID not found" }

\* C18: place_market_order refuses with 'ETH asset ID not found' only when
\* get_asset_info resolved no index at start-up; with any index i >= 0
\* resolved (0 included) it goes on to sign and submit.
C18_RefusesOnlyUnresolved ==
    \A h \in Handlers :
        Refusals(req[h]) # {} => TheBot.eth_asset_id = {}

\* C19: no step of any webhook, status or emergency-stop request, in any
\* interleaving, changes the bot (private key, wallet address, webhook
\* secret, testnet flag, max position, endpoint URLs, asset index).
C19_BotStateUnchanged == [][bot' = bot]_vars

C19_Witness ==
    \E h \in Handlers : \E g \in Handlers :
        /\ bot # {}
        /\ IsSignal(req[h], {BUY, SELL}) /\ req[h].pc = "done"
        /\ Len(SubmitCalls(req[h])) = 1
        /\ req[g].route \in {"status", "emergency"} /\ req[g].pc = "done"
        /\ req[g].calls # <<>>
        /\ TheBot.eth_asset_id = {1}
        /\ TheBot.webhook_secret = Secret

====
